---- MODULE Spec2Model ----
(***************************************************************************)
(* rust-url / idna: the Punycode codec (idna/src/punycode.rs) and the      *)
(* UTS #46 processor (idna/src/uts46.rs) as state machines, and the getters *)
(* of src/webidl.rs.                                                       *)
(*                                                                         *)
(* Strings are sequences of code points (integers); `bytes()` is the UTF-8 *)
(* encoding of such a sequence.  Option values are records                 *)
(* [tag |-> "Some" | "None", val |-> ...].                                 *)
(*                                                                         *)
(* Every local of a function lives in a "frame" record whose fields carry  *)
(* the names of the source's locals; one step operator per basic block of  *)
(* the source moves the frame, and the pure functions (decode, encode) run *)
(* the same step operators to completion.                                  *)
(***************************************************************************)
EXTENDS Integers, Sequences, FiniteSets, TLC

VARIABLES
    dec,    \* frame of punycode::decode (insertions + merge)
    enc,    \* frame of punycode::encode (encode_into)
    idna,   \* frame of Config::to_ascii / Config::to_unicode
    web     \* frame of a WebIdl getter

vars == <<dec, enc, idna, web>>

(***************************************************************************)
(* Bounds of the model.                                                    *)
(***************************************************************************)
\* u32::MAX of the model.  TLC's integers are 32-bit signed, so 2^32-1 cannot
\* be written; the accumulators are given 21 bits, the narrowest width that
\* still holds every code point (0x10FFFF < 2^21).  All arithmetic is done in
\* unbounded integers and compared against this limit as the code does.
U32_MAX == 2097151
\* Longest input string of decode, in code points.
MaxDecodeLen == 5
\* Longest input of encode, in code points.
MaxEncodeLen == 3
MaxSimpleLen == 3
MaxRawLen == 2
MaxLabelLen == 2
MaxBodyLen == 2
MaxDnsLabels == 4
MaxValidLen == 2
MaxQueryLen == 2

(***************************************************************************)
(* Bootstring parameters for Punycode (punycode.rs:19-27).                 *)
(***************************************************************************)
BASE == 36
T_MIN == 1
T_MAX == 26
SKEW == 38
DAMP == 700
INITIAL_BIAS == 72
INITIAL_N == 128
DELIMITER == 45

None == [tag |-> "None", val |-> <<>>]
Some(v) == [tag |-> "Some", val |-> v]

Range(s) == {s[n] : n \in DOMAIN s}
SetMax(S) == CHOOSE x \in S : \A y \in S : y <= x
SetMin(S) == CHOOSE x \in S : \A y \in S : x <= y

\* All sequences over S of length at most n.
SeqsUpTo(S, n) == UNION {[1..m -> S] : m \in 0..n}

(***************************************************************************)
(* Strings: UTF-8 (str::bytes, str::len), char::from_u32, char::is_ascii.  *)
(***************************************************************************)
is_ascii(c) == c < 128

Utf8(c) ==
    IF c < 128 THEN <<c>>
    ELSE IF c < 2048 THEN <<192 + (c \div 64), 128 + (c % 64)>>
    ELSE IF c < 65536 THEN
        <<224 + (c \div 4096), 128 + ((c \div 64) % 64), 128 + (c % 64)>>
    ELSE <<240 + (c \div 262144), 128 + ((c \div 4096) % 64),
           128 + ((c \div 64) % 64), 128 + (c % 64)>>

RECURSIVE bytes(_)
bytes(s) == IF s = <<>> THEN <<>> ELSE Utf8(Head(s)) \o bytes(Tail(s))

\* str::len: the length in bytes, one to four for each character.
len(s) ==
    Len(s) + Cardinality({n \in DOMAIN s : s[n] >= 128})
           + Cardinality({n \in DOMAIN s : s[n] >= 2048})
           + Cardinality({n \in DOMAIN s : s[n] >= 65536})

\* char::from_u32(cp).is_some()
from_u32_ok(cp) == cp <= 1114111 /\ ~(cp \in 55296..57343)

\* str::rfind(DELIMITER) as a 1-based index into the code points; 0 is None.
rfind(s) ==
    LET P == {p \in DOMAIN s : s[p] = DELIMITER}
    IN IF P = {} THEN 0 ELSE SetMax(P)

(***************************************************************************)
(* adapt (punycode.rs:30-39).                                              *)
(***************************************************************************)
RECURSIVE adapt_loop(_, _)
adapt_loop(delta, k) ==
    IF delta > ((BASE - T_MIN) * T_MAX) \div 2
    THEN adapt_loop(delta \div (BASE - T_MIN), k + BASE)
    ELSE k + (((BASE - T_MIN + 1) * delta) \div (delta + SKEW))

adapt(delta, num_points, first_time) ==
    LET d1 == delta \div (IF first_time THEN DAMP ELSE 2)
        d2 == d1 + (d1 \div num_points)
    IN adapt_loop(d2, 0)

\* The threshold t of digit position k (punycode.rs:102-108 and 248-254).
threshold(k, bias) ==
    IF k <= bias THEN T_MIN
    ELSE IF k >= bias + T_MAX THEN T_MAX
    ELSE k - bias

(***************************************************************************)
(* decode = insertions + merge (punycode.rs:54-177).                       *)
(***************************************************************************)
\* The frame before the call; digit is -1 while no digit has been read.
\* pc: "idle" (no call), "split", "outer",
\* "digit", "insert", "sort", "merge", "done" (returned), "hang" (the loop of
\* merge repeats without changing anything).
DecodeIdle ==
    [pc |-> "idle", input |-> <<>>, base |-> <<>>, iter |-> <<>>,
     length |-> 0, buf |-> <<>>, code_point |-> 0, bias |-> 0, i |-> 0,
     previous_i |-> 0, weight |-> 0, k |-> 0, byte |-> 0, digit |-> -1, t |-> 0,
     insertions |-> <<>>, next |-> <<>>, base_chars |-> <<>>, position |-> 0,
     output |-> <<>>, result |-> None, err |-> "", first_time |-> <<>>]

DecodeCall(input) == [DecodeIdle EXCEPT !.pc = "split", !.input = input]

\* return Err(()) of insertions, hence None of decode; err names the line.
DecodeErr(f, why) == [f EXCEPT !.pc = "done", !.result = None, !.err = why]

\* insertions splitting at the last '-' also when it is the first character.
insertions_split_anywhere(f) ==
    LET position == rfind(f.input)
        n == Len(f.input)
        base == IF position = 0 THEN <<>> ELSE SubSeq(f.input, 1, position - 1)
        input == IF position = 0 THEN f.input
                 ELSE SubSeq(f.input, position + 1, n)
    IN [f EXCEPT !.pc = "outer", !.base = base, !.iter = bytes(input),
                 !.length = len(base), !.buf = <<>>,
                 !.code_point = INITIAL_N, !.bias = INITIAL_BIAS, !.i = 0]

\* punycode.rs:63-80
insertions_split(f) ==
    LET position == rfind(f.input)
        n == Len(f.input)
        base == IF position = 0 THEN <<>> ELSE SubSeq(f.input, 1, position - 1)
        input == IF position = 0 THEN f.input
                 ELSE IF position > 1 THEN SubSeq(f.input, position + 1, n)
                 ELSE f.input
    IN [f EXCEPT !.pc = "outer", !.base = base, !.iter = bytes(input),
                 !.length = len(base), !.buf = <<>>,
                 !.code_point = INITIAL_N, !.bias = INITIAL_BIAS, !.i = 0]

\* punycode.rs:81-88: the head of the outer loop.
insertions_outer(f) ==
    LET g == [f EXCEPT !.previous_i = f.i, !.weight = 1, !.k = BASE]
    IN IF f.iter = <<>> THEN [g EXCEPT !.pc = "sort"]
       ELSE [g EXCEPT !.pc = "digit", !.byte = Head(f.iter), !.iter = Tail(f.iter)]

\* digit_of without the arm for 'A'..='Z'.
digit_of_lowercase_only(byte) ==
    IF byte \in 48..57 THEN byte - 48 + 26
    ELSE IF byte \in 97..122 THEN byte - 97
    ELSE -1

\* punycode.rs:92-97; -1 stands for the arm `_ => return Err(())`.
digit_of(byte) ==
    IF byte \in 48..57 THEN byte - 48 + 26
    ELSE IF byte \in 65..90 THEN byte - 65
    ELSE IF byte \in 97..122 THEN byte - 97
    ELSE -1

\* Mutant of insertions_digit: the end of the input inside an integer ends the
\* integer (break) instead of returning Err.
insertions_digit_break(f) ==
    LET digit == digit_of(f.byte)
        t == threshold(f.k, f.bias)
        i == f.i + digit * f.weight
        g == [f EXCEPT !.digit = digit, !.t = t]
    IN IF digit < 0 THEN DecodeErr([f EXCEPT !.digit = digit], "digit")
       ELSE IF digit > (U32_MAX - f.i) \div f.weight
            THEN DecodeErr([f EXCEPT !.digit = digit], "overflow_i")
       ELSE IF digit < t \/ f.iter = <<>> THEN [g EXCEPT !.pc = "insert", !.i = i]
       ELSE IF f.weight > U32_MAX \div (BASE - t)
            THEN DecodeErr([g EXCEPT !.i = i], "overflow_weight")
       ELSE [g EXCEPT !.i = i, !.weight = f.weight * (BASE - t),
                      !.k = f.k + BASE,
                      !.byte = Head(f.iter), !.iter = Tail(f.iter)]

\* punycode.rs:91-121: one iteration of the digit loop.
insertions_digit(f) ==
    LET digit == digit_of(f.byte)
        t == threshold(f.k, f.bias)
        i == f.i + digit * f.weight
        g == [f EXCEPT !.digit = digit, !.t = t]
    IN IF digit < 0 THEN DecodeErr([f EXCEPT !.digit = digit], "digit")
       ELSE IF digit > (U32_MAX - f.i) \div f.weight
            THEN DecodeErr([f EXCEPT !.digit = digit], "overflow_i")
       ELSE IF digit < t THEN [g EXCEPT !.pc = "insert", !.i = i]
       ELSE IF f.weight > U32_MAX \div (BASE - t)
            THEN DecodeErr([g EXCEPT !.i = i], "overflow_weight")
       ELSE IF f.iter = <<>>
            THEN DecodeErr([g EXCEPT !.i = i, !.weight = f.weight * (BASE - t),
                                     !.k = f.k + BASE], "truncated")
       ELSE [g EXCEPT !.i = i, !.weight = f.weight * (BASE - t),
                      !.k = f.k + BASE,
                      !.byte = Head(f.iter), !.iter = Tail(f.iter)]

\* Mutant of shift: earlier insertions are left where they are.
shift_unmoved(buf, i) == buf

\* punycode.rs:136-140: move earlier insertions farther out.
shift(buf, i) ==
    [n \in DOMAIN buf |->
        IF buf[n][1] >= i THEN <<buf[n][1] + 1, buf[n][2]>> ELSE buf[n]]

\* The tail of the outer loop without the final `i += 1`.
insertions_insert_no_increment(f) ==
    LET bias == adapt(f.i - f.previous_i, f.length + 1, f.previous_i = 0)
        g == [f EXCEPT !.bias = bias,
                       !.first_time = Append(f.first_time, f.previous_i = 0)]
        code_point == f.code_point + (f.i \div (f.length + 1))
        i == f.i % (f.length + 1)
    IN IF f.i \div (f.length + 1) > U32_MAX - f.code_point
       THEN DecodeErr(g, "overflow_code_point")
       ELSE IF ~from_u32_ok(code_point)
            THEN DecodeErr([g EXCEPT !.code_point = code_point, !.i = i],
                           "not_scalar")
       ELSE [g EXCEPT !.pc = "outer", !.code_point = code_point,
                      !.buf = Append(shift(f.buf, i), <<i, code_point>>),
                      !.length = f.length + 1, !.i = i]

\* punycode.rs:122-143: the tail of the outer loop.
insertions_insert(f) ==
    LET bias == adapt(f.i - f.previous_i, f.length + 1, f.previous_i = 0)
        g == [f EXCEPT !.bias = bias,
                       !.first_time = Append(f.first_time, f.previous_i = 0)]
        code_point == f.code_point + (f.i \div (f.length + 1))
        i == f.i % (f.length + 1)
    IN IF f.i \div (f.length + 1) > U32_MAX - f.code_point
       THEN DecodeErr(g, "overflow_code_point")
       ELSE IF ~from_u32_ok(code_point)
            THEN DecodeErr([g EXCEPT !.code_point = code_point, !.i = i],
                           "not_scalar")
       ELSE [g EXCEPT !.pc = "outer", !.code_point = code_point,
                      !.buf = Append(shift(f.buf, i), <<i, code_point>>),
                      !.length = f.length + 1, !.i = i + 1]

\* buf.sort_by_key(|(i, _)| *i): a stable insertion sort.
RECURSIVE sort_insert(_, _)
sort_insert(sorted, e) ==
    IF sorted = <<>> THEN <<e>>
    ELSE IF Head(sorted)[1] <= e[1] THEN <<Head(sorted)>> \o sort_insert(Tail(sorted), e)
    ELSE <<e>> \o sorted

RECURSIVE sort_by_key(_)
sort_by_key(buf) ==
    IF buf = <<>> THEN <<>>
    ELSE sort_insert(sort_by_key(SubSeq(buf, 1, Len(buf) - 1)), buf[Len(buf)])

\* punycode.rs:146-147 and 152-156: sort, return to decode, enter merge.
insertions_sort(f) ==
    LET sorted == sort_by_key(f.buf)
    IN [f EXCEPT !.pc = "merge", !.buf = sorted,
                 !.next = IF sorted = <<>> THEN <<>> ELSE <<Head(sorted)>>,
                 !.insertions = IF sorted = <<>> THEN <<>> ELSE Tail(sorted),
                 !.base_chars = f.base, !.position = 0, !.output = <<>>]

\* punycode.rs:158-174: one iteration of the loop of merge.
merge_step(f) ==
    IF f.next # <<>> /\ f.next[1][1] = f.position
    THEN [f EXCEPT !.output = Append(f.output, f.next[1][2]),
                   !.next = IF f.insertions = <<>> THEN <<>>
                            ELSE <<Head(f.insertions)>>,
                   !.insertions = IF f.insertions = <<>> THEN <<>>
                                  ELSE Tail(f.insertions),
                   !.position = f.position + 1]
    ELSE IF f.base_chars # <<>>
    THEN [f EXCEPT !.position = f.position + 1,
                   !.output = Append(f.output, Head(f.base_chars)),
                   !.base_chars = Tail(f.base_chars)]
    ELSE IF f.next = <<>>
    THEN [f EXCEPT !.pc = "done", !.result = Some(f.output)]
    ELSE [f EXCEPT !.pc = "hang"]

DecodeStep(f) ==
    CASE f.pc = "split" -> insertions_split(f)
      [] f.pc = "outer" -> insertions_outer(f)
      [] f.pc = "digit" -> insertions_digit(f)
      [] f.pc = "insert" -> insertions_insert(f)
      [] f.pc = "sort" -> insertions_sort(f)
      [] f.pc = "merge" -> merge_step(f)
      [] OTHER -> f

RECURSIVE DecodeRun(_)
DecodeRun(f) == IF f.pc \in {"idle", "done", "hang"} THEN f ELSE DecodeRun(DecodeStep(f))

\* punycode::decode as a function: Some(chars), None, or "Hang" (no return).
decode(input) ==
    LET f == DecodeRun(DecodeCall(input))
    IN IF f.pc = "hang" THEN [tag |-> "Hang", val |-> <<>>] ELSE f.result

(***************************************************************************)
(* encode = encode_into (punycode.rs:192-282).                             *)
(***************************************************************************)
\* pc: "idle", "basic", "while", "for", "after_for", "done" (returned),
\* "panic" (the thread panicked).  overflow_checks is the build's setting of
\* rustc's -C overflow-checks (on in the dev profile, off in release): with it
\* an overflowing `+=` panics, without it the sum wraps.
EncodeIdle ==
    [pc |-> "idle", input |-> <<>>, overflow_checks |-> FALSE, output |-> <<>>,
     input_length |-> 0, basic_length |-> 0, code_point |-> 0, delta |-> 0,
     bias |-> 0, processed |-> 0, min_code_point |-> 0, n |-> 0,
     values |-> <<>>, result |-> None, err |-> ""]

EncodeCall(input, overflow_checks) ==
    [EncodeIdle EXCEPT !.pc = "basic", !.input = input,
                       !.overflow_checks = overflow_checks]

EncodeErr(e, why) == [e EXCEPT !.pc = "done", !.result = None, !.err = why]
EncodePanic(e, why) == [e EXCEPT !.pc = "panic", !.err = why]

\* punycode.rs:276-282; -1 stands for the arm `_ => panic!()`.
value_to_digit(value) ==
    IF value \in 0..25 THEN value + 97
    ELSE IF value \in 26..35 THEN value - 26 + 48
    ELSE -1

\* punycode.rs:204-219
encode_basic(e) ==
    LET basic == SelectSeq(e.input, is_ascii)
        basic_length == Len(basic)
    IN [e EXCEPT !.pc = "while", !.input_length = Len(e.input),
                 !.basic_length = basic_length,
                 !.output = IF basic_length > 0 THEN Append(basic, DELIMITER)
                            ELSE basic,
                 !.code_point = INITIAL_N, !.delta = 0,
                 !.bias = INITIAL_BIAS, !.processed = basic_length]

\* punycode.rs:220-234: the head of the while loop.
encode_while(e) ==
    LET rest == {c \in Range(e.input) : c >= e.code_point}
        min_code_point == SetMin(rest)
    IN IF ~(e.processed < e.input_length)
       THEN [e EXCEPT !.pc = "done", !.result = Some(e.output)]
       ELSE IF rest = {} THEN EncodePanic(e, "unwrap")
       ELSE IF min_code_point - e.code_point
                   > (U32_MAX - e.delta) \div (e.processed + 1)
            THEN EncodeErr([e EXCEPT !.min_code_point = min_code_point], "overflow_delta")
       ELSE [e EXCEPT !.pc = "for", !.n = 1,
                      !.min_code_point = min_code_point,
                      !.delta = e.delta
                          + (min_code_point - e.code_point) * (e.processed + 1),
                      !.code_point = min_code_point]

\* punycode.rs:245-263: delta as a generalized variable-length integer; the
\* values handed to value_to_digit, in order.
RECURSIVE variable_length_integer(_, _, _)
variable_length_integer(q, k, bias) ==
    LET t == threshold(k, bias)
    IN IF q < t THEN <<q>>
       ELSE <<t + ((q - t) % (BASE - t))>>
            \o variable_length_integer((q - t) \div (BASE - t), k + BASE, bias)

\* punycode.rs:235-268: one iteration of the for loop, on input[n].
encode_for(e) ==
    LET c == e.input[e.n]
        more == IF e.n < Len(e.input) THEN "for" ELSE "after_for"
        values == variable_length_integer(e.delta, BASE, e.bias)
        digits == [m \in DOMAIN values |-> value_to_digit(values[m])]
    IN IF c < e.code_point
       THEN IF e.delta + 1 > U32_MAX
            THEN IF e.overflow_checks
                 THEN EncodePanic(e, "attempt to add with overflow")
                 ELSE EncodeErr([e EXCEPT !.delta = 0], "overflow_delta")
            ELSE [e EXCEPT !.pc = more, !.n = e.n + 1, !.delta = e.delta + 1]
       ELSE IF c = e.code_point
       THEN IF \E m \in DOMAIN digits : digits[m] < 0
            THEN EncodePanic([e EXCEPT !.values = values], "value_to_digit")
            ELSE [e EXCEPT !.pc = more, !.n = e.n + 1, !.values = values,
                           !.output = e.output \o digits,
                           !.bias = adapt(e.delta, e.processed + 1,
                                          e.processed = e.basic_length),
                           !.delta = 0, !.processed = e.processed + 1]
       ELSE [e EXCEPT !.pc = more, !.n = e.n + 1]

\* punycode.rs:269-270
encode_after_for(e) ==
    [e EXCEPT !.pc = "while", !.delta = e.delta + 1,
              !.code_point = e.code_point + 1]

EncodeStep(e) ==
    CASE e.pc = "basic" -> encode_basic(e)
      [] e.pc = "while" -> encode_while(e)
      [] e.pc = "for" -> encode_for(e)
      [] e.pc = "after_for" -> encode_after_for(e)
      [] OTHER -> e

RECURSIVE EncodeRun(_)
EncodeRun(e) == IF e.pc \in {"idle", "done", "panic"} THEN e ELSE EncodeRun(EncodeStep(e))

\* punycode::encode / encode_str as a function: Some(string), None or "Panic".
encode(input, overflow_checks) ==
    LET e == EncodeRun(EncodeCall(input, overflow_checks))
    IN IF e.pc = "panic" THEN [tag |-> "Panic", val |-> <<>>] ELSE e.result

(***************************************************************************)
(* The Punycode machine: a call of decode on any string, or a call of      *)
(* encode whose output is then handed to decode.                           *)
(***************************************************************************)
\* '-', 'a' and 'A' (digit 0), 'b' (1), 'k' (10), '9' (35), U+00E9 (two bytes).
DecodeAlphabet == {45, 97, 65, 98, 107, 57, 233}
DecodeInputs == SeqsUpTo(DecodeAlphabet, MaxDecodeLen)

\* 'a', '-', U+0080, U+00E9, U+AAB2A, U+10FFFF.
EncodeAlphabet == {97, 45, 128, 233, 699178, 1114111}
EncodeInputs == SeqsUpTo(EncodeAlphabet, MaxEncodeLen)

IdnaIdle == [pc |-> "idle"]
WebIdle == [pc |-> "idle"]

InitPunycode ==
    /\ idna = IdnaIdle
    /\ web = WebIdle
    /\ \/ /\ dec \in {DecodeCall(s) : s \in DecodeInputs}
          /\ enc = EncodeIdle
       \/ /\ dec = DecodeIdle
          /\ enc \in {EncodeCall(s, oc) : s \in EncodeInputs, oc \in BOOLEAN}

InsertionsSplit ==
    /\ dec.pc = "split"
    /\ dec' = insertions_split(dec)
    /\ UNCHANGED <<enc, idna, web>>

InsertionsOuter ==
    /\ dec.pc = "outer"
    /\ dec' = insertions_outer(dec)
    /\ UNCHANGED <<enc, idna, web>>

InsertionsDigit ==
    /\ dec.pc = "digit"
    /\ dec' = insertions_digit(dec)
    /\ UNCHANGED <<enc, idna, web>>

InsertionsInsert ==
    /\ dec.pc = "insert"
    /\ dec' = insertions_insert(dec)
    /\ UNCHANGED <<enc, idna, web>>

InsertionsSort ==
    /\ dec.pc = "sort"
    /\ dec' = insertions_sort(dec)
    /\ UNCHANGED <<enc, idna, web>>

MergeStep ==
    /\ dec.pc = "merge"
    /\ dec' = merge_step(dec)
    /\ UNCHANGED <<enc, idna, web>>

EncodeBasic ==
    /\ enc.pc = "basic"
    /\ enc' = encode_basic(enc)
    /\ UNCHANGED <<dec, idna, web>>

EncodeWhile ==
    /\ enc.pc = "while"
    /\ enc' = encode_while(enc)
    /\ UNCHANGED <<dec, idna, web>>

EncodeFor ==
    /\ enc.pc = "for"
    /\ enc' = encode_for(enc)
    /\ UNCHANGED <<dec, idna, web>>

EncodeAfterFor ==
    /\ enc.pc = "after_for"
    /\ enc' = encode_after_for(enc)
    /\ UNCHANGED <<dec, idna, web>>

\* The string encode returned is handed to decode.
RoundTrip ==
    /\ enc.pc = "done"
    /\ enc.result.tag = "Some"
    /\ dec.pc = "idle"
    /\ dec' = DecodeCall(enc.result.val)
    /\ UNCHANGED <<enc, idna, web>>

NextPunycode ==
    \/ InsertionsSplit
    \/ InsertionsOuter
    \/ InsertionsDigit
    \/ InsertionsInsert
    \/ InsertionsSort
    \/ MergeStep
    \/ EncodeBasic
    \/ EncodeWhile
    \/ EncodeFor
    \/ EncodeAfterFor
    \/ RoundTrip

SpecPunycode == InitPunycode /\ [][NextPunycode]_vars

(***************************************************************************)
(* UTS #46 (uts46.rs).  The characters of the model:                       *)
(*   '-' '.' '0'-'9' 'a'-'z' 'A'-'Z' '_'                                   *)
(*   U+0080 (control)  U+00AD (soft hyphen)  U+00DF (sharp s)              *)
(*   U+00E4 (a diaeresis)  U+00E9 (e acute)  U+0308 (combining diaeresis)  *)
(*   U+05D0 (alef)  U+0627 (arabic alef)  U+0660 (arabic-indic zero)       *)
(*   U+1E8D (x diaeresis)  U+2488 (digit one full stop)                    *)
(*   U+3002 (ideographic full stop)                                        *)
(***************************************************************************)
PUNYCODE_PREFIX == <<120, 110, 45, 45>>

is_ascii_lowercase(c) == c \in 97..122
is_ascii_digit(c) == c \in 48..57
is_ascii_graphic(c) == c \in 33..126
\* str::is_ascii
str_is_ascii(s) == \A n \in DOMAIN s : is_ascii(s[n])

Valid == [kind |-> "Valid", slice |-> <<>>]
Ignored == [kind |-> "Ignored", slice |-> <<>>]
Mapped(slice) == [kind |-> "Mapped", slice |-> slice]
Deviation(slice) == [kind |-> "Deviation", slice |-> slice]
Disallowed == [kind |-> "Disallowed", slice |-> <<>>]
DisallowedStd3Valid == [kind |-> "DisallowedStd3Valid", slice |-> <<>>]
DisallowedStd3Mapped(slice) == [kind |-> "DisallowedStd3Mapped", slice |-> slice]

\* The rows of the mapping table (uts46_mapping_table.rs, generated from
\* IdnaMappingTable.txt) for the characters of the model; the rows of '-',
\* '.', digits and lowercase letters are the ones tests::mapping_fast_path
\* asserts.
MAPPING_TABLE ==
    [c \in {45, 46, 95} \cup (48..57) \cup (65..90) \cup (97..122) \cup
           {128, 173, 223, 228, 233, 776, 1488, 1575, 1632, 7821, 9352, 12290} |->
        CASE c \in 65..90 -> Mapped(<<c + 32>>)
          [] c = 95 -> DisallowedStd3Valid
          [] c = 128 -> Disallowed
          [] c = 173 -> Ignored
          [] c = 223 -> Deviation(<<115, 115>>)
          [] c = 9352 -> DisallowedStd3Mapped(<<49, 46>>)
          [] c = 12290 -> Mapped(<<46>>)
          [] OTHER -> Valid]

\* uts46.rs:58-83: the row of the table the code point falls in.
find_char(codepoint) == MAPPING_TABLE[codepoint]

\* The characters find_char, bidi_class and nfc are modelled for.
Chars == DOMAIN MAPPING_TABLE

\* unicode_bidi::bidi_class
bidi_class(c) ==
    IF c \in 65..90 \/ c \in 97..122 \/ c \in {223, 228, 233, 7821} THEN "L"
    ELSE IF c \in 48..57 \/ c = 9352 THEN "EN"
    ELSE IF c = 45 THEN "ES"
    ELSE IF c = 46 THEN "CS"
    ELSE IF c \in {95, 12290} THEN "ON"
    ELSE IF c \in {128, 173} THEN "BN"
    ELSE IF c = 776 THEN "NSM"
    ELSE IF c = 1488 THEN "R"
    ELSE IF c = 1575 THEN "AL"
    ELSE IF c = 1632 THEN "AN"
    ELSE "?"

\* unicode_normalization::char::is_combining_mark
is_combining_mark(c) == c = 776

\* UnicodeNormalization::nfc, one character at a time: the only canonical
\* compositions among the characters of the model are a + U+0308 and
\* x + U+0308, and none of its characters decomposes or reorders.
nfc_char(out, c) ==
    IF c = 776 /\ out # <<>> /\ out[Len(out)] \in {97, 120}
    THEN [out EXCEPT ![Len(out)] = IF out[Len(out)] = 97 THEN 228 ELSE 7821]
    ELSE Append(out, c)

RECURSIVE nfc_chars(_, _, _, _)
nfc_chars(s, lo, hi, out) ==
    IF lo > hi THEN out
    ELSE IF lo = hi THEN nfc_char(out, s[lo])
    ELSE LET mid == (lo + hi) \div 2
             left == nfc_chars(s, lo, mid, out)
         IN IF Len(left) < 0 THEN left ELSE nfc_chars(s, mid + 1, hi, left)

nfc(s) == nfc_chars(s, 1, Len(s), <<>>)

\* unicode_normalization::is_nfc
is_nfc(s) == nfc(s) = s

\* str::split('.'): the pieces between one '.' (or the start) and the next
\* (or the end), in order.
split(s) ==
    LET dots == {p \in DOMAIN s : s[p] = 46}
        dot(k) == IF k = 0 THEN 0
                  ELSE IF k > Cardinality(dots) THEN Len(s) + 1
                  ELSE CHOOSE p \in dots : Cardinality({q \in dots : q < p}) = k - 1
    IN [k \in 1..(Cardinality(dots) + 1) |-> SubSeq(s, dot(k - 1) + 1, dot(k) - 1)]

starts_with(s, prefix) ==
    Len(s) >= Len(prefix) /\ SubSeq(s, 1, Len(prefix)) = prefix

\* uts46.rs:400-422
Configs ==
    [use_std3_ascii_rules : BOOLEAN, transitional_processing : BOOLEAN,
     verify_dns_length : BOOLEAN, check_hyphens : BOOLEAN]

ConfigDefault ==
    [use_std3_ascii_rules |-> FALSE, transitional_processing |-> FALSE,
     verify_dns_length |-> FALSE, check_hyphens |-> FALSE]

\* uts46.rs:515-525, Errors::default()
ErrorsDefault ==
    [punycode |-> FALSE, validity_criteria |-> FALSE,
     disallowed_by_std3_ascii_rules |-> FALSE, disallowed_mapped_in_std3 |-> FALSE,
     disallowed_character |-> FALSE, too_long_for_dns |-> FALSE,
     too_short_for_dns |-> FALSE]

\* uts46.rs:527-542
failed(e) ==
    \/ e.punycode
    \/ e.validity_criteria
    \/ e.disallowed_by_std3_ascii_rules
    \/ e.disallowed_mapped_in_std3
    \/ e.disallowed_character
    \/ e.too_long_for_dns
    \/ e.too_short_for_dns

\* map_char with the Disallowed arm emitting nothing.
map_char_disallowed_dropped(codepoint, config, acc) ==
    LET m == find_char(codepoint)
        push == [acc EXCEPT !.output = Append(acc.output, codepoint)]
        push_str == [acc EXCEPT !.output = acc.output \o m.slice]
    IN IF codepoint \in {46, 45} \/ is_ascii_lowercase(codepoint) \/ is_ascii_digit(codepoint)
       THEN push
       ELSE CASE m.kind = "Valid" -> push
              [] m.kind = "Ignored" -> acc
              [] m.kind = "Mapped" -> push_str
              [] m.kind = "Deviation" ->
                    IF config.transitional_processing THEN push_str ELSE push
              [] m.kind = "Disallowed" ->
                    [acc EXCEPT !.errors.disallowed_character = TRUE]
              [] m.kind = "DisallowedStd3Valid" ->
                    IF config.use_std3_ascii_rules
                    THEN [push EXCEPT !.errors.disallowed_by_std3_ascii_rules = TRUE]
                    ELSE push
              [] m.kind = "DisallowedStd3Mapped" ->
                    IF config.use_std3_ascii_rules
                    THEN [push_str EXCEPT !.errors.disallowed_mapped_in_std3 = TRUE]
                    ELSE push_str

\* uts46.rs:85-119; acc is [output, errors].
map_char(codepoint, config, acc) ==
    LET m == find_char(codepoint)
        push == [acc EXCEPT !.output = Append(acc.output, codepoint)]
        push_str == [acc EXCEPT !.output = acc.output \o m.slice]
    IN IF codepoint \in {46, 45} \/ is_ascii_lowercase(codepoint) \/ is_ascii_digit(codepoint)
       THEN push
       ELSE CASE m.kind = "Valid" -> push
              [] m.kind = "Ignored" -> acc
              [] m.kind = "Mapped" -> push_str
              [] m.kind = "Deviation" ->
                    IF config.transitional_processing THEN push_str ELSE push
              [] m.kind = "Disallowed" ->
                    [push EXCEPT !.errors.disallowed_character = TRUE]
              [] m.kind = "DisallowedStd3Valid" ->
                    IF config.use_std3_ascii_rules
                    THEN [push EXCEPT !.errors.disallowed_by_std3_ascii_rules = TRUE]
                    ELSE push
              [] m.kind = "DisallowedStd3Mapped" ->
                    IF config.use_std3_ascii_rules
                    THEN [push_str EXCEPT !.errors.disallowed_mapped_in_std3 = TRUE]
                    ELSE push_str

\* The last character of the label that is not of class NSM, as a sequence
\* of at most one character (uts46.rs:157-169 and 210-223).
RECURSIVE last_non_nsm(_)
last_non_nsm(label) ==
    IF label = <<>> THEN <<>>
    ELSE IF bidi_class(label[Len(label)]) = "NSM"
         THEN last_non_nsm(SubSeq(label, 1, Len(label) - 1))
    ELSE <<label[Len(label)]>>

\* Rule 4 left out.
passes_bidi_rule_4_skipped(found_an, found_en) == TRUE

\* uts46.rs:235-238
passes_bidi_rule_4(found_an, found_en) == ~(found_an /\ found_en)

\* uts46.rs:122-248
passes_bidi(label, is_bidi_domain_) ==
    IF ~is_bidi_domain_ THEN TRUE
    ELSE IF label = <<>> THEN TRUE
    ELSE LET first_char_class == bidi_class(label[1])
             chars == Tail(label)
             last == last_non_nsm(label)
             found_en == \E n \in DOMAIN chars : bidi_class(chars[n]) = "EN"
             found_an == \E n \in DOMAIN chars : bidi_class(chars[n]) = "AN"
         IN IF first_char_class = "L"
            THEN /\ \A n \in DOMAIN chars :
                        bidi_class(chars[n]) \in
                            {"L", "EN", "ES", "CS", "ET", "ON", "BN", "NSM"}
                 /\ (last = <<>> \/ bidi_class(last[1]) \in {"L", "EN"})
            ELSE IF first_char_class \in {"R", "AL"}
            THEN /\ \A n \in DOMAIN chars :
                        bidi_class(chars[n]) \in
                            {"R", "AL", "AN", "EN", "ES", "CS", "ET", "ON", "BN", "NSM"}
                 /\ last # <<>>
                 /\ bidi_class(last[1]) \in {"R", "AL", "EN", "AN"}
                 /\ passes_bidi_rule_4(found_an, found_en)
            ELSE FALSE

\* is_valid with V3 applied whatever check_hyphens is.
is_valid_hyphens_always(label, config) ==
    IF label = <<>> THEN TRUE
    ELSE IF label[1] = 45 \/ label[Len(label)] = 45 THEN FALSE
    ELSE IF is_combining_mark(label[1]) THEN FALSE
    ELSE ~\E n \in DOMAIN label :
            LET m == find_char(label[n])
            IN CASE m.kind = "Valid" -> FALSE
                 [] m.kind = "Deviation" -> config.transitional_processing
                 [] m.kind = "DisallowedStd3Valid" -> config.use_std3_ascii_rules
                 [] OTHER -> TRUE

\* uts46.rs:255-298
is_valid(label, config) ==
    IF label = <<>> THEN TRUE
    ELSE IF config.check_hyphens /\ (label[1] = 45 \/ label[Len(label)] = 45) THEN FALSE
    ELSE IF is_combining_mark(label[1]) THEN FALSE
    ELSE ~\E n \in DOMAIN label :
            LET m == find_char(label[n])
            IN CASE m.kind = "Valid" -> FALSE
                 [] m.kind = "Deviation" -> config.transitional_processing
                 [] m.kind = "DisallowedStd3Valid" -> config.use_std3_ascii_rules
                 [] OTHER -> TRUE

\* uts46.rs:498-509
is_bidi_domain(s) ==
    \E n \in DOMAIN s :
        /\ ~is_ascii_graphic(s[n])
        /\ bidi_class(s[n]) \in {"R", "AL", "AN"}

\* The frame of one call of Config::to_ascii or Config::to_unicode: the
\* locals of processing (uts46.rs:301-398) and of to_ascii (uts46.rs:450-489).
\* api is "any" until the call returns into to_ascii or to_unicode; prev holds
\* the finished to_unicode call whose output this call was given, if any.
IdnaCall(domain, config, api, prev) ==
    [pc |-> "scan", api |-> api, domain |-> domain, config |-> config,
     simple |-> FALSE, errors |-> ErrorsDefault, mapped |-> <<>>,
     normalized |-> <<>>, validated |-> <<>>, valid |-> TRUE,
     has_bidi_labels |-> FALSE, result |-> <<>>, ok |-> FALSE, prev |-> prev]

\* uts46.rs:306-331, one pass of the loop on character c; st is
\* [prev, simple, puny_prefix, broke], broke once the loop has been left.
scan_char(st, c) ==
    LET matched == st.puny_prefix < 5 /\ c = PUNYCODE_PREFIX[st.puny_prefix + 1]
        puny_prefix == IF st.puny_prefix >= 5 THEN st.puny_prefix
                       ELSE IF matched THEN st.puny_prefix + 1
                       ELSE 5
        break == [st EXCEPT !.simple = FALSE, !.broke = TRUE]
    IN IF st.broke THEN st
       ELSE IF c = 46
       THEN IF st.prev = 45 THEN break ELSE [st EXCEPT !.puny_prefix = 0]
       ELSE IF st.puny_prefix = 0 /\ c = 45 THEN break
       ELSE IF matched /\ puny_prefix = 4 THEN [break EXCEPT !.puny_prefix = 4]
       ELSE IF ~is_ascii_lowercase(c) /\ ~is_ascii_digit(c)
       THEN [break EXCEPT !.puny_prefix = puny_prefix]
       ELSE [st EXCEPT !.prev = c, !.puny_prefix = puny_prefix]

\* uts46.rs:305-332: the passes on characters lo..hi of the domain, in order
\* (split in halves to keep the evaluation shallow).
RECURSIVE scan_chars(_, _, _, _)
scan_chars(domain, lo, hi, st) ==
    IF lo > hi THEN st
    ELSE IF lo = hi THEN scan_char(st, domain[lo])
    ELSE LET mid == (lo + hi) \div 2
             left == scan_chars(domain, lo, mid, st)
         IN IF left.broke THEN left ELSE scan_chars(domain, mid + 1, hi, left)

\* The scan without its checks: every non-empty domain returns early.
processing_scan_always(f) ==
    IF f.domain # <<>>
    THEN [f EXCEPT !.pc = "processed", !.simple = TRUE,
                   !.validated = f.domain, !.errors = ErrorsDefault]
    ELSE [f EXCEPT !.pc = "map", !.simple = FALSE]

\* uts46.rs:304-335
processing_scan(f) ==
    LET st == scan_chars(f.domain, 1, Len(f.domain),
                  [prev |-> 63, simple |-> f.domain # <<>>, puny_prefix |-> 0,
                   broke |-> FALSE])
        simple == st.simple
    IN IF simple
       THEN [f EXCEPT !.pc = "processed", !.simple = TRUE,
                      !.validated = f.domain, !.errors = ErrorsDefault]
       ELSE [f EXCEPT !.pc = "map", !.simple = FALSE]

\* uts46.rs:339-341: map_char on characters lo..hi of the domain, in order
\* (split in halves, the first half evaluated before the second is entered,
\* to keep the evaluation shallow).
RECURSIVE map_chars(_, _, _, _, _)
map_chars(domain, lo, hi, config, acc) ==
    IF lo > hi THEN acc
    ELSE IF lo = hi THEN map_char(domain[lo], config, acc)
    ELSE LET mid == (lo + hi) \div 2
             left == map_chars(domain, lo, mid, config, acc)
         IN IF Len(left.output) < 0 THEN left
            ELSE map_chars(domain, mid + 1, hi, config, left)

\* uts46.rs:337-343
processing_map(f) ==
    LET acc == map_chars(f.domain, 1, Len(f.domain), f.config, [output |-> <<>>, errors |-> ErrorsDefault])
    IN [f EXCEPT !.pc = "labels", !.errors = acc.errors, !.mapped = acc.output,
                 !.normalized = nfc(acc.output)]

\* The caller's configuration as it is.
caller_config(config) == config

\* uts46.rs:346 (Config::transitional_processing(false), uts46.rs:432-435)
non_transitional(config) == [config EXCEPT !.transitional_processing = FALSE]

\* One pass of the loop in which a label whose Punycode does not decode
\* leaves nothing behind, not even its separator.
processing_label_failure_skipped(label, st, config) ==
    LET pushed == IF st.first THEN st.validated ELSE Append(st.validated, 46)
        s == [st EXCEPT !.validated = pushed, !.first = FALSE]
    IN IF starts_with(label, PUNYCODE_PREFIX)
       THEN LET r == decode(SubSeq(label, Len(PUNYCODE_PREFIX) + 1, Len(label)))
            IN IF r.tag = "Hang" THEN [s EXCEPT !.hang = TRUE]
               ELSE IF r.tag = "Some"
               THEN [s EXCEPT
                       !.has_bidi_labels = st.has_bidi_labels \/ is_bidi_domain(r.val),
                       !.valid = st.valid /\
                                 ~(~is_nfc(r.val) \/ ~is_valid(r.val, non_transitional(config))),
                       !.validated = pushed \o r.val]
               ELSE [st EXCEPT !.has_bidi_labels = TRUE, !.errors.punycode = TRUE]
       ELSE [s EXCEPT
               !.has_bidi_labels = st.has_bidi_labels \/ is_bidi_domain(label),
               !.valid = st.valid /\ is_valid(label, config),
               !.validated = pushed \o label]

\* uts46.rs:349-380, one pass of the loop over the labels of normalized; st is
\* [validated, first, valid, has_bidi_labels, errors, hang].
processing_label(label, st, config) ==
    LET pushed == IF st.first THEN st.validated ELSE Append(st.validated, 46)
        s == [st EXCEPT !.validated = pushed, !.first = FALSE]
    IN IF starts_with(label, PUNYCODE_PREFIX)
       THEN LET r == decode(SubSeq(label, Len(PUNYCODE_PREFIX) + 1, Len(label)))
            IN IF r.tag = "Hang" THEN [s EXCEPT !.hang = TRUE]
               ELSE IF r.tag = "Some"
               THEN [s EXCEPT
                       !.has_bidi_labels = st.has_bidi_labels \/ is_bidi_domain(r.val),
                       !.valid = st.valid /\
                                 ~(~is_nfc(r.val) \/ ~is_valid(r.val, non_transitional(config))),
                       !.validated = pushed \o r.val]
               ELSE [s EXCEPT !.has_bidi_labels = TRUE, !.errors.punycode = TRUE]
       ELSE [s EXCEPT
               !.has_bidi_labels = st.has_bidi_labels \/ is_bidi_domain(label),
               !.valid = st.valid /\ is_valid(label, config),
               !.validated = pushed \o label]

\* The loop leaving at the first label whose Punycode does not decode.
RECURSIVE processing_label_loop_until_error(_, _, _, _)
processing_label_loop_until_error(labels, n, st, config) ==
    IF n > Len(labels) \/ st.hang \/ st.errors.punycode THEN st
    ELSE processing_label_loop_until_error(labels, n + 1,
                               processing_label(labels[n], st, config), config)

\* uts46.rs:348-381
RECURSIVE processing_label_loop(_, _, _, _)
processing_label_loop(labels, n, st, config) ==
    IF n > Len(labels) \/ st.hang THEN st
    ELSE processing_label_loop(labels, n + 1,
                               processing_label(labels[n], st, config), config)

\* uts46.rs:345-381
processing_labels(f) ==
    LET st == processing_label_loop(split(f.normalized), 1,
                  [validated |-> <<>>, first |-> TRUE, valid |-> TRUE,
                   has_bidi_labels |-> FALSE, errors |-> f.errors, hang |-> FALSE],
                  f.config)
    IN IF st.hang THEN [f EXCEPT !.pc = "hang"]
       ELSE [f EXCEPT !.pc = "bidi", !.validated = st.validated, !.valid = st.valid,
                      !.has_bidi_labels = st.has_bidi_labels, !.errors = st.errors]

\* The bidi pass looking only at the labels that are right-to-left themselves.
processing_bidi_rtl_only(f) ==
    LET labels == split(f.validated)
        valid == f.valid /\ \A n \in DOMAIN labels :
                    is_bidi_domain(labels[n]) => passes_bidi(labels[n], f.has_bidi_labels)
    IN [f EXCEPT !.pc = "processed", !.valid = valid,
                 !.errors.validity_criteria = ~valid]

\* uts46.rs:383-397
processing_bidi(f) ==
    LET labels == split(f.validated)
        valid == f.valid /\ \A n \in DOMAIN labels : passes_bidi(labels[n], f.has_bidi_labels)
    IN [f EXCEPT !.pc = "processed", !.valid = valid,
                 !.errors.validity_criteria = ~valid]

ProcessingStep(f) ==
    CASE f.pc = "scan" -> processing_scan(f)
      [] f.pc = "map" -> processing_map(f)
      [] f.pc = "labels" -> processing_labels(f)
      [] f.pc = "bidi" -> processing_bidi(f)

RECURSIVE ProcessingRun(_)
ProcessingRun(f) ==
    IF f.pc \in {"processed", "hang"} THEN f ELSE ProcessingRun(ProcessingStep(f))

\* uts46.rs:301-398, as the pair it returns (tag "Hang" when it does not).
processing(domain, config) ==
    LET f == ProcessingRun(IdnaCall(domain, config, "any", <<>>))
    IN IF f.pc = "hang" THEN [tag |-> "Hang"]
       ELSE [tag |-> "Ok", domain |-> f.validated, errors |-> f.errors]

\* punycode.rs:183-186; the labels of the model are too short for the build's
\* overflow setting to matter.
encode_str(label) == encode(label, FALSE)

\* The pass without the Punycode branch: every label is pushed as it is.
to_ascii_label_verbatim(label, st) ==
    [st EXCEPT !.result = (IF st.first THEN st.result ELSE Append(st.result, 46)) \o label,
               !.first = FALSE]

\* The pass pushing the encoding without PUNYCODE_PREFIX.
to_ascii_label_no_prefix(label, st) ==
    LET pushed == IF st.first THEN st.result ELSE Append(st.result, 46)
        x == encode_str(label)
    IN [st EXCEPT !.result = pushed \o (IF str_is_ascii(label) THEN label ELSE x.val),
                  !.first = FALSE]

\* uts46.rs:454-472, one pass of the loop; st is [result, first, errors].
to_ascii_label(label, st) ==
    LET pushed == IF st.first THEN st.result ELSE Append(st.result, 46)
        s == [st EXCEPT !.result = pushed, !.first = FALSE]
    IN IF str_is_ascii(label) THEN [s EXCEPT !.result = pushed \o label]
       ELSE LET x == encode_str(label)
            IN IF x.tag = "Some"
               THEN [s EXCEPT !.result = pushed \o PUNYCODE_PREFIX \o x.val]
               ELSE [s EXCEPT !.errors.punycode = TRUE]

RECURSIVE to_ascii_label_loop(_, _, _)
to_ascii_label_loop(labels, n, st) ==
    IF n > Len(labels) THEN st
    ELSE to_ascii_label_loop(labels, n + 1, to_ascii_label(labels[n], st))

\* uts46.rs:451-472
to_ascii_labels(f) ==
    LET st == to_ascii_label_loop(split(f.validated), 1,
                  [result |-> <<>>, first |-> TRUE, errors |-> f.errors])
    IN [f EXCEPT !.pc = "verify", !.api = "to_ascii", !.result = st.result,
                 !.errors = st.errors]

\* The result as it is: a trailing '.' counts as an empty last label.
strip_nothing(result) == result

\* uts46.rs:475-479
strip_trailing_dot(result) ==
    IF result # <<>> /\ result[Len(result)] = 46
    THEN SubSeq(result, 1, Len(result) - 1)
    ELSE result

\* uts46.rs:474-488
to_ascii_verify(f) ==
    LET domain == strip_trailing_dot(f.result)
        labels == split(domain)
        too_short == domain = <<>> \/ \E n \in DOMAIN labels : labels[n] = <<>>
        too_long == len(domain) > 253 \/ \E n \in DOMAIN labels : len(labels[n]) > 63
        errors == IF f.config.verify_dns_length
                  THEN [f.errors EXCEPT
                          !.too_short_for_dns = f.errors.too_short_for_dns \/ too_short,
                          !.too_long_for_dns = f.errors.too_long_for_dns \/ too_long]
                  ELSE f.errors
    IN [f EXCEPT !.pc = "done", !.errors = errors, !.ok = ~failed(errors)]

\* uts46.rs:492-495
to_unicode_return(f) ==
    [f EXCEPT !.pc = "done", !.api = "to_unicode", !.ok = ~failed(f.errors)]

(***************************************************************************)
(* The UTS #46 machine: one call of to_ascii or to_unicode on a domain and *)
(* a Config, then to_ascii on the output of a to_unicode that returned Ok. *)
(***************************************************************************)
RECURSIVE join(_)
join(labels) ==
    IF Len(labels) = 1 THEN labels[1]
    ELSE labels[1] \o <<46>> \o join(Tail(labels))

to_ascii_uppercase(s) ==
    [n \in DOMAIN s |-> IF is_ascii_lowercase(s[n]) THEN s[n] - 32 ELSE s[n]]

to_ascii_lowercase(s) ==
    [n \in DOMAIN s |-> IF s[n] \in 65..90 THEN s[n] + 32 ELSE s[n]]

\* Domains over the characters the fast path looks at.
SimpleAlphabet == {97, 120, 110, 48, 45, 46}
SimpleDomains == SeqsUpTo(SimpleAlphabet, MaxSimpleLen)

\* Domains with one character of every mapping kind and bidi class.
RawAlphabet == {97, 46, 65, 95, 128, 173, 223, 776, 1488, 9352, 12290}
RawDomains == SeqsUpTo(RawAlphabet, MaxRawLen)

\* Labels in ACE form: the encodings of short Unicode labels, and short
\* bodies that are not the encoding of anything, kept when what they decode
\* to stays within the characters of the model.
\* "xn--" + U+00E9 is a label that itself begins with the prefix; sixty 'a'
\* and U+00E9 is a label whose ACE form is longer than 63 bytes; '_' U+00E9
\* is a label with a DisallowedStd3Valid character; the body
\* U+00E9 "-ca" is one the decoder does not return from.
UnicodeLabels ==
    (SeqsUpTo({97, 45, 223, 233, 776, 1488}, MaxLabelLen) \ {<<>>}) \cup
    {PUNYCODE_PREFIX \o <<233>>, [n \in 1..61 |-> IF n = 61 THEN 233 ELSE 97],
     <<95, 233>>}
BodyAlphabet == {97, 45, 57, 233}
EncodingOf == [u \in UnicodeLabels |-> encode_str(u).val]
AceBodies ==
    {EncodingOf[u] : u \in UnicodeLabels} \cup
    {b \in SeqsUpTo(BodyAlphabet, MaxBodyLen) :
        LET r == decode(b) IN r.tag = "Some" => Range(r.val) \subseteq Chars} \cup
    {<<233, 45, 97>>, <<233, 45, 99, 97>>}
AceLabels == {PUNYCODE_PREFIX \o b : b \in AceBodies}
SecondLabels ==
    {<<48, 97>>, <<9352>>, PUNYCODE_PREFIX \o <<57>>,
     PUNYCODE_PREFIX \o EncodingOf[<<233>>], PUNYCODE_PREFIX \o EncodingOf[<<1488>>]}
AceDomains ==
    AceLabels \cup {to_ascii_uppercase(l) : l \in AceLabels} \cup
    {join(<<l, m>>) : l \in AceLabels, m \in SecondLabels} \cup
    {join(<<PUNYCODE_PREFIX \o <<57>>, l>>) : l \in AceLabels}

\* Domains of labels of 'a' whose lengths lie around the DNS limits.
DnsLabelLens == {0, 62, 63, 64}
DnsLabels == {[n \in 1..k |-> 97] : k \in DnsLabelLens}
DnsDomains == {join(ls) : ls \in SeqsUpTo(DnsLabels, MaxDnsLabels) \ {<<>>}}
DnsConfigs == {[ConfigDefault EXCEPT !.verify_dns_length = v] : v \in BOOLEAN}

\* Domains of two labels of digits, letters and right-to-left characters:
\* "0a", "a", alef, alef "0", alef arabic zero, arabic zero, "a" arabic zero,
\* alef "0" arabic zero, "0" arabic zero.
BidiLabels ==
    {<<48, 97>>, <<97>>, <<1488>>, <<1488, 48>>, <<1488, 1632>>, <<1632>>,
     <<97, 1632>>, <<1488, 48, 1632>>, <<48, 1632>>}
BidiDomains == {join(<<l, m>>) : l \in BidiLabels, m \in BidiLabels}

InitIdna ==
    /\ web = WebIdle
    /\ dec = DecodeIdle
    /\ enc = EncodeIdle
    /\ \/ \E domain \in SimpleDomains \cup RawDomains \cup AceDomains \cup BidiDomains,
             config \in Configs :
            idna = IdnaCall(domain, config, "any", <<>>)
       \/ \E domain \in DnsDomains, config \in DnsConfigs :
            idna = IdnaCall(domain, config, "any", <<>>)

ProcessingScan ==
    /\ idna.pc = "scan"
    /\ idna' = processing_scan(idna)
    /\ UNCHANGED <<dec, enc, web>>

ProcessingMap ==
    /\ idna.pc = "map"
    /\ idna' = processing_map(idna)
    /\ UNCHANGED <<dec, enc, web>>

ProcessingLabels ==
    /\ idna.pc = "labels"
    /\ idna' = processing_labels(idna)
    /\ UNCHANGED <<dec, enc, web>>

ProcessingBidi ==
    /\ idna.pc = "bidi"
    /\ idna' = processing_bidi(idna)
    /\ UNCHANGED <<dec, enc, web>>

ToUnicode ==
    /\ idna.pc = "processed"
    /\ idna.api = "any"
    /\ idna' = to_unicode_return(idna)
    /\ UNCHANGED <<dec, enc, web>>

ToAsciiLabels ==
    /\ idna.pc = "processed"
    /\ idna' = to_ascii_labels(idna)
    /\ UNCHANGED <<dec, enc, web>>

ToAsciiVerify ==
    /\ idna.pc = "verify"
    /\ idna' = to_ascii_verify(idna)
    /\ UNCHANGED <<dec, enc, web>>

\* to_ascii(to_unicode(d).0)
ToAsciiOfToUnicode ==
    /\ idna.pc = "done"
    /\ idna.api = "to_unicode"
    /\ idna.ok
    /\ idna.prev = <<>>
    /\ idna' = IdnaCall(idna.validated, idna.config, "to_ascii",
                        <<[domain |-> idna.domain]>>)
    /\ UNCHANGED <<dec, enc, web>>

NextIdna ==
    \/ ProcessingScan
    \/ ProcessingMap
    \/ ProcessingLabels
    \/ ProcessingBidi
    \/ ToUnicode
    \/ ToAsciiLabels
    \/ ToAsciiVerify
    \/ ToAsciiOfToUnicode

SpecIdna == InitIdna /\ [][NextIdna]_vars

(***************************************************************************)
(* is_valid applied on its own to labels of every kind of code point.      *)
(***************************************************************************)
ValidAlphabet == {97, 45, 65, 95, 128, 173, 223, 776, 9352}
ValidLabels == SeqsUpTo(ValidAlphabet, MaxValidLen)

InitIsValid ==
    /\ web = WebIdle
    /\ dec = DecodeIdle
    /\ enc = EncodeIdle
    /\ \E label \in ValidLabels, config \in Configs :
          idna = [pc |-> "is_valid", label |-> label, config |-> config]

IsValid ==
    /\ idna.pc = "is_valid"
    /\ idna' = [pc |-> "is_valid_done", label |-> idna.label, config |-> idna.config,
                valid |-> is_valid(idna.label, idna.config)]
    /\ UNCHANGED <<dec, enc, web>>

NextIsValid ==
    \/ IsValid

SpecIsValid == InitIsValid /\ [][NextIsValid]_vars

(***************************************************************************)
(* The getters search and hash of WebIdl (src/webidl.rs).  A Url is its    *)
(* serialization with the byte offsets (from 0) of its '?' and '#', as the *)
(* getters read and assert them.                                           *)
(***************************************************************************)
QUESTION == 63
HASH == 35

\* Url::byte_at
byte_at(url, i) == url.serialization[i + 1]
\* Url::slice(lo..hi)
slice(url, lo, hi) == SubSeq(url.serialization, lo + 1, hi)
\* Url::slice(lo..)
slice_from(url, lo) == slice(url, lo, Len(url.serialization))

\* A Url with the given text up to the path, query and fragment (Options).
Url(head, query, fragment) ==
    LET q == IF query.tag = "Some" THEN <<QUESTION>> \o query.val ELSE <<>>
        h == IF fragment.tag = "Some" THEN <<HASH>> \o fragment.val ELSE <<>>
    IN [serialization |-> head \o q \o h,
        query_start |-> IF query.tag = "Some" THEN Some(Len(head)) ELSE None,
        fragment_start |-> IF fragment.tag = "Some" THEN Some(Len(head) + Len(q))
                           ELSE None]

\* "s:" and "s:/a"; queries over 'a' and '?'; fragments over 'a', '?', '#'.
UrlHeads == {<<115, 58>>, <<115, 58, 47, 97>>}
UrlQueries == {None} \cup {Some(q) : q \in SeqsUpTo({97, QUESTION}, MaxQueryLen)}
UrlFragments == {None} \cup {Some(h) : h \in SeqsUpTo({97, QUESTION, HASH}, MaxQueryLen)}
Urls == {Url(head, q, h) : head \in UrlHeads, q \in UrlQueries, h \in UrlFragments}

WebCall(url, api) == [pc |-> api, api |-> api, url |-> url, result |-> <<>>]
WebReturn(w, result) == [w EXCEPT !.pc = "done", !.result = result]
WebPanic(w) == [w EXCEPT !.pc = "panic"]

\* webidl.rs:123-140; a failing debug_assert is a panic.
search(w) ==
    LET url == w.url
        query_start == url.query_start
        fragment_start == url.fragment_start
    IN IF query_start.tag = "Some" /\ fragment_start.tag = "None"
       THEN IF byte_at(url, query_start.val) # QUESTION THEN WebPanic(w)
            ELSE IF query_start.val < Len(url.serialization) - 1
            THEN WebReturn(w, slice_from(url, query_start.val))
            ELSE WebReturn(w, <<>>)
       ELSE IF query_start.tag = "Some" /\ fragment_start.tag = "Some"
       THEN IF byte_at(url, query_start.val) # QUESTION THEN WebPanic(w)
            ELSE IF query_start.val < fragment_start.val
            THEN WebReturn(w, slice(url, query_start.val, fragment_start.val))
            ELSE WebReturn(w, <<>>)
       ELSE WebReturn(w, <<>>)

\* webidl.rs:152-162
hash(w) ==
    LET url == w.url
        fragment_start == url.fragment_start
    IN IF fragment_start.tag = "Some"
       THEN IF byte_at(url, fragment_start.val) # HASH THEN WebPanic(w)
            ELSE IF fragment_start.val < Len(url.serialization) - 1
            THEN WebReturn(w, slice_from(url, fragment_start.val))
            ELSE WebReturn(w, <<>>)
       ELSE WebReturn(w, <<>>)

InitWebIdl ==
    /\ dec = DecodeIdle
    /\ enc = EncodeIdle
    /\ idna = IdnaIdle
    /\ \E url \in Urls, api \in {"search", "hash"} : web = WebCall(url, api)

Search ==
    /\ web.pc = "search"
    /\ web' = search(web)
    /\ UNCHANGED <<dec, enc, idna>>

Hash ==
    /\ web.pc = "hash"
    /\ web' = hash(web)
    /\ UNCHANGED <<dec, enc, idna>>

NextWebIdl ==
    \/ Search
    \/ Hash

SpecWebIdl == InitWebIdl /\ [][NextWebIdl]_vars

(***************************************************************************)
(* Claims about the Punycode codec, checked under SpecPunycode.            *)
(***************************************************************************)
DecodeEnded == dec.pc \in {"done", "hang"}
\* decode was called on the string encode returned.
RoundTripEnded == enc.pc = "done" /\ enc.result.tag = "Some" /\ DecodeEnded
NonAscii(s) == \E n \in DOMAIN s : ~is_ascii(s[n])

\* C1 as stated: whenever encode(s) returns Some(t), decode(t) returns Some(s).
C1_RoundTrip ==
    RoundTripEnded => dec.pc = "done" /\ dec.result = Some(enc.input)

\* C1 as amended: whenever encode(s) returns Some(t), decode(t) returns Some(s),
\* unless decode stops at its overflow check of i (punycode.rs:98-99) and
\* returns None; it never returns another sequence and never fails otherwise.
C1_RoundTripUnlessOverflow ==
    RoundTripEnded =>
        /\ dec.pc = "done"
        /\ \/ dec.result = Some(enc.input)
           \/ dec.result = None /\ dec.err = "overflow_i"

\* A round trip of a sequence that mixes '-', another ASCII character and
\* non-ASCII characters has ended with the sequence itself.
C1_Witness ==
    /\ RoundTripEnded
    /\ dec.result = Some(enc.input)
    /\ Len(enc.input) = MaxEncodeLen
    /\ DELIMITER \in Range(enc.input)
    /\ NonAscii(enc.input)
    /\ \E n \in DOMAIN enc.input : is_ascii(enc.input[n]) /\ enc.input[n] # DELIMITER

\* The text after the last '-' of the input (all of it when there is none).
Extended(s) == SubSeq(s, rfind(s) + 1, Len(s))
IsLetterOrDigit(byte) == byte \in 48..57 \/ byte \in 65..90 \/ byte \in 97..122

\* C2: decode returns None, never a partial result, when the extended part
\* holds a byte that is no ASCII letter or digit, when the input ends inside
\* a variable-length integer (the last digit read is >= its threshold), or
\* when code_point has become a value that is no Unicode scalar value.
C2_MalformedIsNone ==
    (/\ DecodeEnded
     /\ \/ \E b \in Range(bytes(Extended(dec.input))) : ~IsLetterOrDigit(b)
        \/ dec.iter = <<>> /\ dec.digit >= 0 /\ dec.digit >= dec.t
        \/ ~from_u32_ok(dec.code_point))
    => dec.pc = "done" /\ dec.result = None

\* decode has returned None at the end of the input, inside an integer, after
\* it had already decoded a character.
C2_Witness ==
    /\ dec.pc = "done"
    /\ dec.err = "truncated"
    /\ dec.buf # <<>>
    /\ dec.result = None

\* decode has returned None for a surrogate and for a value above 0x10FFFF.
C2_WitnessScalar ==
    /\ dec.pc = "done" /\ dec.err = "not_scalar" /\ dec.code_point > 1114111

\* C3: decode returns None for every input that holds a non-ASCII character,
\* before or after the last '-'.
C3_NonAsciiIsNone ==
    DecodeEnded /\ NonAscii(dec.input) => dec.pc = "done" /\ dec.result = None

\* C4: decode runs to completion on every input: the loops of insertions and
\* of merge end and decode returns.  (Every step of insertions takes a byte of
\* the input or leaves its loop; "hang" is the one state whose loop iteration
\* changes nothing.)
C4_DecodeRunsToCompletion == dec.pc # "hang"

\* C5: no accumulator of the codec leaves 0..u32::MAX, and an update that
\* would leave it makes the operation return None, never panic.
C5_NoWrapNoCrash ==
    /\ enc.pc # "panic"
    /\ \A v \in {dec.i, dec.weight, dec.code_point, dec.length, dec.bias,
                 enc.delta, enc.code_point, enc.processed, enc.bias} :
           v \in 0..U32_MAX

(***************************************************************************)
(* Claims about UTS #46 processing, checked under SpecIdna.                *)
(***************************************************************************)
ToAsciiReturned == idna.pc = "done" /\ idna.api = "to_ascii"
ToUnicodeReturned == idna.pc = "done" /\ idna.api = "to_unicode"

IsLetterDigitHyphenDot(c) ==
    c \in 65..90 \/ c \in 97..122 \/ c \in 48..57 \/ c \in {45, 46}

\* C6, as stated: under every configuration, an Ok result of to_ascii holds
\* only ASCII letters, ASCII digits, '.' and '-'.
C6_OkIsLdh ==
    ToAsciiReturned /\ idna.ok =>
        \A n \in DOMAIN idna.result : IsLetterDigitHyphenDot(idna.result[n])

\* C6, amended: with use_std3_ascii_rules on, an Ok result of to_ascii holds
\* only ASCII letters, ASCII digits, '.' and '-'.
C6_OkIsLdhUnderStd3 ==
    ToAsciiReturned /\ idna.ok /\ idna.config.use_std3_ascii_rules =>
        \A n \in DOMAIN idna.result : IsLetterDigitHyphenDot(idna.result[n])

\* C6: to_ascii returned Ok under STD3 rules for a domain with a non-ASCII
\* label and a character the mapping replaced.
C6_Witness ==
    /\ ToAsciiReturned
    /\ idna.ok
    /\ idna.config.use_std3_ascii_rules
    /\ NonAscii(idna.domain)
    /\ idna.mapped # idna.domain
    /\ starts_with(idna.result, PUNYCODE_PREFIX)

\* The result of to_ascii with one trailing '.' stripped.
Stripped ==
    IF idna.result # <<>> /\ idna.result[Len(idna.result)] = 46
    THEN [n \in 1..(Len(idna.result) - 1) |-> idna.result[n]]
    ELSE idna.result

\* A label is empty where the string is empty, begins or ends with '.', or
\* has two '.' in a row.
HasEmptyLabel(s) ==
    \/ s = <<>>
    \/ s[1] = 46
    \/ s[Len(s)] = 46
    \/ \E n \in 1..(Len(s) - 1) : s[n] = 46 /\ s[n + 1] = 46

\* A label is longer than max where max + 1 characters in a row are not '.'.
HasLabelLongerThan(s, max) ==
    \E n \in 1..(Len(s) - max) : \A m \in n..(n + max) : s[m] # 46

\* C7: with verify_dns_length set, too_short_for_dns is set exactly when the
\* stripped result is empty or has an empty label and too_long_for_dns exactly
\* when it is longer than 253 bytes or has a label longer than 63 bytes; with
\* verify_dns_length unset neither flag is set.
C7_DnsLengthFlags ==
    ToAsciiReturned =>
        IF idna.config.verify_dns_length
        THEN /\ idna.errors.too_short_for_dns <=> HasEmptyLabel(Stripped)
             /\ idna.errors.too_long_for_dns <=>
                    (Len(Stripped) > 253 \/ HasLabelLongerThan(Stripped, 63))
        ELSE ~idna.errors.too_short_for_dns /\ ~idna.errors.too_long_for_dns

\* C7: to_ascii returned with too_long_for_dns set, and not too_short_for_dns,
\* for a result of 254 bytes and no label above 63.
C7_Witness ==
    /\ ToAsciiReturned
    /\ idna.config.verify_dns_length
    /\ idna.errors.too_long_for_dns
    /\ ~idna.errors.too_short_for_dns
    /\ Len(Stripped) = 254
    /\ ~HasLabelLongerThan(Stripped, 63)

\* The domains the fast path is described for: non-empty, only [a-z0-9.-], no
\* label starting or ending with '-' or beginning with "xn--".
SimpleDomain(domain) ==
    /\ domain # <<>>
    /\ \A n \in DOMAIN domain :
          is_ascii_lowercase(domain[n]) \/ is_ascii_digit(domain[n]) \/ domain[n] \in {45, 46}
    /\ \A n \in DOMAIN domain :
          domain[n] = 45 =>
             /\ n > 1 /\ domain[n - 1] # 46
             /\ n < Len(domain) /\ domain[n + 1] # 46
    /\ \A n \in DOMAIN domain :
          (n = 1 \/ domain[n - 1] = 46) =>
             ~starts_with(SubSeq(domain, n, Len(domain)), PUNYCODE_PREFIX)

\* The full pipeline (map, NFC, split, validate, bidi) on the call's domain.
FullPipeline ==
    ProcessingRun([IdnaCall(idna.domain, idna.config, "any", <<>>) EXCEPT !.pc = "map"])

\* C8: on such a domain processing returns the domain unchanged with no flag
\* set, and whenever the scan returns early the full pipeline gives the same
\* output and the same flags.
C8_FastPathIsFullPipeline ==
    idna.pc = "processed" /\ (SimpleDomain(idna.domain) \/ idna.simple) =>
        /\ idna.validated = idna.domain
        /\ idna.errors = ErrorsDefault
        /\ FullPipeline.pc = "processed"
        /\ FullPipeline.validated = idna.validated
        /\ FullPipeline.errors = idna.errors

\* C8: the scan returned early on a domain of several labels.
C8_Witness ==
    /\ idna.pc = "processed"
    /\ idna.simple
    /\ SimpleDomain(idna.domain)
    /\ Len(idna.domain) = MaxSimpleLen
    /\ \E n \in DOMAIN idna.domain : idna.domain[n] = 46

\* The Unicode labels whose ACE form the label is, up to ASCII case.
AceTable == {<<PUNYCODE_PREFIX \o encode_str(u).val, u>> : u \in UnicodeLabels}

AceSourceOf(label) ==
    {e[2] : e \in {e \in AceTable : e[1] = to_ascii_lowercase(label)}}

\* The bidi rule over the labels of a whole domain.
BidiRuleHolds(labels) ==
    LET bidi == \E k \in DOMAIN labels : is_bidi_domain(labels[k])
    IN \A k \in DOMAIN labels : passes_bidi(labels[k], bidi)

\* Every label of the domain is "xn--" and the encoding of a label that is
\* NFC-normalized and valid under the configuration, the bidi rule included.
AceOfValidLabels(domain, config) ==
    LET labels == split(domain)
    IN /\ \A k \in DOMAIN labels :
             \E u \in AceSourceOf(labels[k]) : is_nfc(u) /\ is_valid(u, config)
       /\ BidiRuleHolds([k \in DOMAIN labels |-> CHOOSE u \in AceSourceOf(labels[k]) : TRUE])

\* The same, of labels that have a non-ASCII character, do not themselves
\* begin with "xn--", and which the decoder gives back from their encoding.
AceOfValidNonAsciiLabels(domain, config) ==
    /\ AceOfValidLabels(domain, config)
    /\ \A k \in DOMAIN split(domain) :
          \A u \in AceSourceOf(split(domain)[k]) :
             /\ NonAscii(u)
             /\ ~starts_with(u, PUNYCODE_PREFIX)
             /\ decode(encode_str(u).val) = Some(u)

DecodedDomain(domain) ==
    join([k \in DOMAIN split(domain) |-> CHOOSE u \in AceSourceOf(split(domain)[k]) : TRUE])

\* C9, as stated: for a domain of ACE labels of valid NFC labels, to_unicode
\* returns the decoded labels with Ok, and to_ascii of that returns the
\* domain up to ASCII case.
C9_AceRoundTrip ==
    /\ ToUnicodeReturned /\ AceOfValidLabels(idna.domain, idna.config) =>
          idna.ok /\ idna.validated = DecodedDomain(idna.domain)
    /\ ToAsciiReturned /\ idna.prev # <<>>
          /\ AceOfValidLabels(idna.prev[1].domain, idna.config) =>
          idna.ok /\ idna.result = to_ascii_lowercase(idna.prev[1].domain)

\* The domain is within the lengths verify_dns_length asks for.
WithinDnsLengths(domain) ==
    ~HasEmptyLabel(domain) /\ Len(domain) <= 253 /\ ~HasLabelLongerThan(domain, 63)

\* C9, amended: the same for a domain of ACE labels of valid NFC labels that
\* have a non-ASCII character, do not begin with "xn--" and decode back from
\* their encoding; to_ascii returns the domain unless verify_dns_length is
\* set and the domain exceeds the DNS lengths.
C9_AceRoundTripNonAscii ==
    /\ ToUnicodeReturned /\ AceOfValidNonAsciiLabels(idna.domain, idna.config) =>
          idna.ok /\ idna.validated = DecodedDomain(idna.domain)
    /\ ToAsciiReturned /\ idna.prev # <<>>
          /\ AceOfValidNonAsciiLabels(idna.prev[1].domain, idna.config)
          /\ (idna.config.verify_dns_length => WithinDnsLengths(idna.prev[1].domain)) =>
          idna.ok /\ idna.result = to_ascii_lowercase(idna.prev[1].domain)

\* C9: to_ascii returned the two-label ACE domain, given in upper case or
\* with a right-to-left label, that to_unicode had decoded.
C9_Witness ==
    /\ ToAsciiReturned
    /\ idna.prev # <<>>
    /\ AceOfValidNonAsciiLabels(idna.prev[1].domain, idna.config)
    /\ Len(split(idna.prev[1].domain)) = 2
    /\ is_bidi_domain(idna.domain)
    /\ idna.ok
    /\ idna.result = to_ascii_lowercase(idna.prev[1].domain)

\* What raises each flag, stated for the code points and labels one by one.
\* The labels are those of the mapped and normalized domain.
MappedLabels(domain, config) ==
    split(nfc(map_chars(domain, 1, Len(domain), config,
                        [output |-> <<>>, errors |-> ErrorsDefault]).output))

AceBody(label) == SubSeq(label, Len(PUNYCODE_PREFIX) + 1, Len(label))

\* What one label contributes: whether its Punycode fails to decode, the
\* text it stands for (itself, or what its Punycode decodes to), and whether
\* that text is invalid.
LabelInfo(label, config) ==
    LET ace == starts_with(label, PUNYCODE_PREFIX)
        r == IF ace THEN decode(AceBody(label)) ELSE Some(label)
        text == IF r.tag = "Some" THEN r.val ELSE <<>>
    IN [fails |-> ace /\ r.tag = "None",
        text |-> text,
        invalid |->
            IF ~ace THEN ~is_valid(label, config)
            ELSE /\ r.tag = "Some"
                 /\ \/ ~is_nfc(text)
                    \/ ~is_valid(text, [config EXCEPT !.transitional_processing = FALSE])]

PunycodeFails(label) == LabelInfo(label, ConfigDefault).fails

RaisedBy(domain, config, kind) ==
    \E n \in DOMAIN domain :
        /\ ~(is_ascii_lowercase(domain[n]) \/ is_ascii_digit(domain[n]) \/ domain[n] \in {45, 46})
        /\ find_char(domain[n]).kind = kind

\* The flags processing owes for the labels of the mapped domain.
LabelFlagsRaised(labels, config) ==
    LET info == [k \in DOMAIN labels |-> LabelInfo(labels[k], config)]
        bidi == \E k \in DOMAIN labels : info[k].fails \/ is_bidi_domain(info[k].text)
    IN [punycode |-> \E k \in DOMAIN labels : info[k].fails,
        validity_criteria |->
            \E k \in DOMAIN labels : info[k].invalid \/ ~passes_bidi(info[k].text, bidi),
        encode_fails |->
            \E k \in DOMAIN labels :
                ~str_is_ascii(info[k].text) /\ encode_str(info[k].text).tag # "Some"]

\* The flags a call owes for the domain: those of processing, and for
\* to_ascii those of the encoding and of the DNS lengths of its result.
FlagsRaised(domain, config, api) ==
    LET e == LabelFlagsRaised(MappedLabels(domain, config), config)
        to_ascii == api = "to_ascii"
    IN [punycode |-> e.punycode \/ (to_ascii /\ e.encode_fails),
        validity_criteria |-> e.validity_criteria,
        disallowed_by_std3_ascii_rules |->
            config.use_std3_ascii_rules /\ RaisedBy(domain, config, "DisallowedStd3Valid"),
        disallowed_mapped_in_std3 |->
            config.use_std3_ascii_rules /\ RaisedBy(domain, config, "DisallowedStd3Mapped"),
        disallowed_character |-> RaisedBy(domain, config, "Disallowed"),
        too_long_for_dns |->
            /\ to_ascii
            /\ config.verify_dns_length
            /\ (Len(Stripped) > 253 \/ HasLabelLongerThan(Stripped, 63)),
        too_short_for_dns |->
            to_ascii /\ config.verify_dns_length /\ HasEmptyLabel(Stripped)]

\* C10: a call that returns has recorded every flag that some code point or
\* label of the domain raises, whatever else failed, and no other flag, and
\* it returns Ok exactly when no flag is recorded.
C10_FlagsAccumulate ==
    idna.pc = "done" =>
        /\ idna.errors = FlagsRaised(idna.domain, idna.config, idna.api)
        /\ idna.ok <=> ~failed(idna.errors)

\* C10: a call returned an error with the punycode flag of its first label
\* recorded next to the flags that its other label raises.
C10_Witness ==
    /\ idna.pc = "done"
    /\ ~idna.ok
    /\ PunycodeFails(split(idna.domain)[1])
    /\ idna.errors.punycode
    /\ idna.errors.validity_criteria
    /\ idna.errors.disallowed_mapped_in_std3

\* The bidi class of the last character of the label that is not NSM, "" if
\* there is none.
LastStrongClass(label) ==
    LET strong == {n \in DOMAIN label : bidi_class(label[n]) # "NSM"}
    IN IF strong = {} THEN "" ELSE bidi_class(label[SetMax(strong)])

ClassesOf(label) == {bidi_class(label[n]) : n \in DOMAIN label}

\* The rules of RFC 5893, section 2, for one non-empty label.
Rfc5893(label) ==
    /\ bidi_class(label[1]) \in {"L", "R", "AL"}
    /\ bidi_class(label[1]) \in {"R", "AL"} =>
          /\ ClassesOf(label) \subseteq
                {"R", "AL", "AN", "EN", "ES", "CS", "ET", "ON", "BN", "NSM"}
          /\ LastStrongClass(label) \in {"R", "AL", "EN", "AN"}
          /\ ~({"EN", "AN"} \subseteq ClassesOf(label))
    /\ bidi_class(label[1]) = "L" =>
          /\ ClassesOf(label) \subseteq {"L", "EN", "ES", "CS", "ET", "ON", "BN", "NSM"}
          /\ LastStrongClass(label) \in {"L", "EN"}

\* What the labels of the mapped domain contribute, one by one.
LabelInfos(domain, config) ==
    LET labels == MappedLabels(domain, config)
    IN [k \in DOMAIN labels |-> LabelInfo(labels[k], config)]

\* Some label has a right-to-left character.
BidiDomain(infos) == \E k \in DOMAIN infos : is_bidi_domain(infos[k].text)

\* Some label has one, or a Punycode that does not decode.
BidiTainted(infos) == BidiDomain(infos) \/ \E k \in DOMAIN infos : infos[k].fails

OtherwiseValid(infos) == \A k \in DOMAIN infos : ~infos[k].invalid

\* C11: in a bidi domain a label that breaks the rules of RFC 5893, such as
\* one whose first character is not L, R or AL, sets validity_criteria
\* wherever it stands; in a domain that is not bidi-tainted the bidi rules
\* fail no label.
C11_BidiRulesOverDomain ==
    idna.pc = "processed" =>
        LET infos == LabelInfos(idna.domain, idna.config)
        IN /\ BidiDomain(infos) /\
              (\E k \in DOMAIN infos : infos[k].text # <<>> /\ ~Rfc5893(infos[k].text))
                => idna.errors.validity_criteria
           /\ ~BidiTainted(infos) /\ OtherwiseValid(infos)
                => ~idna.errors.validity_criteria

\* C11: processing set validity_criteria for a domain whose first label is
\* the pure ASCII "0a" and whose second label is a valid right-to-left one.
C11_Witness ==
    /\ idna.pc = "processed"
    /\ idna.errors.validity_criteria
    /\ Len(split(idna.validated)) = 2
    /\ split(idna.validated)[1] = <<48, 97>>
    /\ is_bidi_domain(split(idna.validated)[2])
    /\ Rfc5893(split(idna.validated)[2])
    /\ OtherwiseValid(LabelInfos(idna.domain, idna.config))

HasClass(label, class) == \E n \in DOMAIN label : bidi_class(label[n]) = class

\* C12: when to_ascii or to_unicode returns Ok, no label of the processed
\* output has both a character of class EN and one of class AN.
C12_NoEnWithAn ==
    idna.pc = "done" /\ idna.ok =>
        \A k \in DOMAIN split(idna.validated) :
            ~(HasClass(split(idna.validated)[k], "EN") /\ HasClass(split(idna.validated)[k], "AN"))

\* C12: a call returned Ok for a domain with EN in one label and AN in
\* another.
C12_Witness ==
    /\ idna.pc = "done"
    /\ idna.ok
    /\ \E k, l \in DOMAIN split(idna.validated) :
          /\ HasClass(split(idna.validated)[k], "EN")
          /\ HasClass(split(idna.validated)[l], "AN")

\* The text is not NFC: it has a pair that composes.
NotNfc(text) ==
    \E n \in 1..(Len(text) - 1) : text[n] \in {97, 120} /\ text[n + 1] = 776

\* The kinds a decoded label may hold: Valid, Deviation and, with STD3 off,
\* DisallowedStd3Valid.
KindAcceptedDecoded(c, config) ==
    \/ find_char(c).kind \in {"Valid", "Deviation"}
    \/ find_char(c).kind = "DisallowedStd3Valid" /\ ~config.use_std3_ascii_rules

\* The labels of the mapped domain that carry the prefix and decode.
DecodedLabels(domain, config) ==
    LET labels == MappedLabels(domain, config)
    IN {decode(AceBody(labels[k])).val :
            k \in {k \in DOMAIN labels :
                      /\ starts_with(labels[k], PUNYCODE_PREFIX)
                      /\ decode(AceBody(labels[k])).tag = "Some"}}

\* C13: a decoded label that is not NFC or holds a code point of another kind
\* sets validity_criteria; a domain of one decoded label that is NFC, holds
\* only those kinds and meets the other criteria does not, whatever
\* transitional_processing is.
C13_DecodedLabelValidated ==
    idna.pc = "processed" /\ ~idna.simple =>
        LET decoded == DecodedLabels(idna.domain, idna.config)
            labels == MappedLabels(idna.domain, idna.config)
        IN /\ (\E text \in decoded :
                  \/ NotNfc(text)
                  \/ \E n \in DOMAIN text : ~KindAcceptedDecoded(text[n], idna.config))
                => idna.errors.validity_criteria
           /\ (/\ Len(labels) = 1
               /\ \E text \in decoded :
                     /\ text # <<>>
                     /\ ~NotNfc(text)
                     /\ \A n \in DOMAIN text : KindAcceptedDecoded(text[n], idna.config)
                     /\ ~is_combining_mark(text[1])
                     /\ idna.config.check_hyphens => text[1] # 45 /\ text[Len(text)] # 45
                     /\ Rfc5893(text) \/ ~is_bidi_domain(text))
                => ~idna.errors.validity_criteria

\* C13: under transitional processing, validity_criteria is set for a label
\* whose decoded text is not NFC and fails nothing else.
C13_Witness ==
    /\ idna.pc = "processed"
    /\ idna.config.transitional_processing
    /\ idna.errors = [ErrorsDefault EXCEPT !.validity_criteria = TRUE]
    /\ starts_with(idna.normalized, PUNYCODE_PREFIX)
    /\ NotNfc(idna.validated)
    /\ \A n \in DOMAIN idna.validated : KindAcceptedDecoded(idna.validated[n], idna.config)

\* C13: under transitional processing, a label that decodes to a Deviation
\* character is accepted.
C13_WitnessDeviation ==
    /\ idna.pc = "processed"
    /\ idna.config.transitional_processing
    /\ ~failed(idna.errors)
    /\ starts_with(idna.normalized, PUNYCODE_PREFIX)
    /\ \E n \in DOMAIN idna.validated : find_char(idna.validated[n]).kind = "Deviation"

\* What one code point contributes to the mapped text, by its kind.
KindImage(c, config) ==
    LET kind == MAPPING_TABLE[c].kind
    IN IF kind \in {"Valid", "DisallowedStd3Valid", "Disallowed"} THEN <<c>>
       ELSE IF kind = "Ignored" THEN <<>>
       ELSE IF kind \in {"Mapped", "DisallowedStd3Mapped"} THEN MAPPING_TABLE[c].slice
       ELSE IF config.transitional_processing THEN MAPPING_TABLE[c].slice
       ELSE <<c>>

RECURSIVE KindImages(_, _)
KindImages(domain, config) ==
    IF domain = <<>> THEN <<>>
    ELSE KindImage(Head(domain), config) \o KindImages(Tail(domain), config)

HasKind(domain, kind) == \E n \in DOMAIN domain : MAPPING_TABLE[domain[n]].kind = kind

C14_WitnessStd3Off ==
    /\ idna.pc = "done" /\ idna.ok
    /\ ~idna.config.use_std3_ascii_rules
    /\ idna.domain = <<95, 9352>>

(***************************************************************************)
(* Claims about is_valid, checked under SpecIsValid.                       *)
(***************************************************************************)
\* V6 for one code point under the configuration.
KindValid(c, config) ==
    \/ MAPPING_TABLE[c].kind = "Valid"
    \/ MAPPING_TABLE[c].kind = "Deviation" /\ ~config.transitional_processing
    \/ MAPPING_TABLE[c].kind = "DisallowedStd3Valid" /\ ~config.use_std3_ascii_rules

\* C15: is_valid returns true exactly for the empty label and for a label
\* that has no leading or trailing '-' when check_hyphens is on, does not
\* begin with a combining mark and holds only code points that are Valid,
\* Deviation with transitional processing off or DisallowedStd3Valid with
\* STD3 off; with check_hyphens off a label of letters and '-' is valid.
C15_IsValidCriteria ==
    idna.pc = "is_valid_done" =>
        LET label == idna.label
            config == idna.config
        IN /\ idna.valid <=>
                \/ label = <<>>
                \/ /\ config.check_hyphens => label[1] # 45 /\ label[Len(label)] # 45
                   /\ ~is_combining_mark(label[1])
                   /\ \A n \in DOMAIN label : KindValid(label[n], config)
           /\ ~config.check_hyphens /\ (\A n \in DOMAIN label : label[n] \in {97, 45})
                => idna.valid

\* C15: is_valid has accepted a label with a leading '-' under check_hyphens
\* off.
C15_Witness ==
    /\ idna.pc = "is_valid_done"
    /\ ~idna.config.check_hyphens
    /\ idna.label = <<45, 97>>
    /\ idna.valid

\* C15: is_valid has rejected a Deviation code point under transitional
\* processing, and a label beginning with a combining mark.
C15_WitnessRejected ==
    /\ idna.pc = "is_valid_done"
    /\ ~idna.valid
    /\ \/ idna.config.transitional_processing /\ idna.label = <<223>>
       \/ idna.label = <<776, 97>>

(***************************************************************************)
(* Further claims about the Punycode codec, checked under SpecPunycode.    *)
(***************************************************************************)
\* The input up to and including its last '-'.
UpToDelimiter(s) == SubSeq(s, 1, rfind(s))
\* The input before its last '-'.
BeforeDelimiter(s) == SubSeq(s, 1, rfind(s) - 1)

SameOutcome(r) == IF dec.pc = "hang" THEN r.tag = "Hang" ELSE r = dec.result

\* C16: decode gives the same result when the letters after the last '-' are
\* all made upper case or all lower case; the ASCII characters of a decoded
\* string are the ASCII text before the last '-' as it was written; every byte
\* encode writes after the basic section is in a-z or 0-9.
C16_DigitCase ==
    /\ DecodeEnded =>
          /\ SameOutcome(decode(UpToDelimiter(dec.input)
                                \o to_ascii_uppercase(Extended(dec.input))))
          /\ SameOutcome(decode(UpToDelimiter(dec.input)
                                \o to_ascii_lowercase(Extended(dec.input))))
          /\ dec.pc = "done" /\ dec.result.tag = "Some"
             /\ str_is_ascii(BeforeDelimiter(dec.input))
                => SelectSeq(dec.result.val, is_ascii) = BeforeDelimiter(dec.input)
    /\ enc.pc = "done" /\ enc.result.tag = "Some" =>
          \A n \in DOMAIN enc.output :
              n > enc.basic_length + (IF enc.basic_length > 0 THEN 1 ELSE 0)
                 => is_ascii_lowercase(enc.output[n]) \/ is_ascii_digit(enc.output[n])

\* C16: decode has returned a string for an input with an upper-case letter
\* before the last '-' and both cases of a letter after it.
C16_Witness ==
    /\ dec.pc = "done" /\ dec.result.tag = "Some"
    /\ rfind(dec.input) = 2
    /\ dec.input[1] = 65
    /\ 65 \in Range(Extended(dec.input))
    /\ 97 \in Range(Extended(dec.input))
    /\ dec.result.val[Len(dec.result.val)] = 65

\* C16: encode has written digits of both ranges after a basic section.
C16_WitnessEncode ==
    /\ enc.pc = "done" /\ enc.result.tag = "Some"
    /\ enc.basic_length > 0
    /\ \E n, m \in (enc.basic_length + 2)..Len(enc.output) :
          is_ascii_lowercase(enc.output[n]) /\ is_ascii_digit(enc.output[m])

(***************************************************************************)
(* Claims about the WebIdl getters, checked under SpecWebIdl.              *)
(***************************************************************************)
\* The first position of the byte in the text, or one past its end.
FirstOf(text, byte) ==
    LET P == {p \in DOMAIN text : text[p] = byte}
    IN IF P = {} THEN Len(text) + 1 ELSE SetMin(P)

\* The serialization from its '?' up to the fragment's '#' or the end; empty
\* when there is no '?' before the fragment.
SearchPart(serialization) ==
    LET h == FirstOf(serialization, HASH)
        q == FirstOf(serialization, QUESTION)
    IN IF q < h THEN SubSeq(serialization, q, h - 1) ELSE <<>>

\* C17: search returns the empty string when the URL has no query or an
\* empty one, and otherwise the text from '?' up to the '#' of the fragment
\* or the end of the serialization.
C17_SearchOfQuery ==
    web.pc = "done" /\ web.api = "search" =>
        LET part == SearchPart(web.url.serialization)
        IN web.result = IF Len(part) <= 1 THEN <<>> ELSE part

(***************************************************************************)
(* Claims about the split of decode and the wire form of encode, checked   *)
(* under SpecPunycode.                                                     *)
(***************************************************************************)
DecodeSplitDone == dec.pc \notin {"idle", "split"}

\* C18 as stated: an input whose only '-' is its first character decodes
\* like the same text without that '-'.
C18_LeadingDelimiterSkipped ==
    DecodeEnded /\ rfind(dec.input) = 1 => SameOutcome(decode(Tail(dec.input)))

\* C18: the base is the text before the last '-' and the bytes still to read
\* are a tail of the text after it; when the only '-' is the first character
\* the base is empty, the whole input is read, its '-' as the first digit,
\* and decode returns None.
C18_LeadingDelimiterIsNone ==
    /\ DecodeSplitDone =>
          LET extended == bytes(IF rfind(dec.input) > 1 THEN Extended(dec.input)
                                ELSE dec.input)
          IN /\ dec.base = BeforeDelimiter(dec.input)
             /\ Len(dec.iter) <= Len(extended)
             /\ dec.iter = SubSeq(extended, Len(extended) - Len(dec.iter) + 1,
                                  Len(extended))
    /\ DecodeEnded /\ rfind(dec.input) = 1 =>
          /\ dec.pc = "done" /\ dec.result = None
          /\ dec.err = "digit" /\ dec.byte = DELIMITER /\ dec.buf = <<>>

\* C18: decode has returned None for a leading '-' followed by text that
\* decodes on its own.
C18_Witness ==
    /\ dec.pc = "done" /\ dec.result = None
    /\ rfind(dec.input) = 1
    /\ decode(Tail(dec.input)).tag = "Some"
    /\ decode(Tail(dec.input)).val # <<>>

(***************************************************************************)
(* Claim about the fast-path scan, checked under SpecIdna.                 *)
(***************************************************************************)
\* C19: the scan returns early exactly for the domains that are non-empty,
\* hold only [a-z0-9.-], and have no label that starts or ends with '-' or
\* begins with "xn--" (so "a-a" and "xn-" return early).
C19_FastPathExactly ==
    idna.pc \in {"map", "processed"} => (idna.simple <=> SimpleDomain(idna.domain))

\* The output so far has the wire form of the input's encoding.
WireForm(input, output) ==
    LET basic == SelectSeq(input, is_ascii)
        digits_from == Len(basic) + (IF basic # <<>> THEN 1 ELSE 0) + 1
    IN /\ Len(output) >= digits_from - 1
       /\ SubSeq(output, 1, Len(basic)) = basic
       /\ basic # <<>> => output[Len(basic) + 1] = DELIMITER
       /\ \A n \in digits_from..Len(output) :
             is_ascii_lowercase(output[n]) \/ is_ascii_digit(output[n])

\* The parts of C20 other than the absence of a panic.
EncodeWellFormed ==
    /\ enc.pc \notin {"idle", "basic"} => WireForm(enc.input, enc.output)
    /\ enc.pc = "while" /\ enc.processed < enc.input_length =>
          \E c \in Range(enc.input) : c >= enc.code_point
    /\ \A v \in Range(enc.values) : v <= 35

\* C20: encode never panics, its output is the ASCII code points of the
\* input in order, then '-' exactly when there is one, then digits only; the
\* while loop always finds a code point >= code_point, and value_to_digit is
\* handed values up to 35 only.
C20_NoPanicWireForm ==
    /\ enc.pc # "panic"
    /\ EncodeWellFormed

(***************************************************************************)
(* Claim about the bias adaptation of decode, checked under SpecPunycode.  *)
(***************************************************************************)
\* C21: of the calls of adapt made by decode, the first and only the first
\* is given first_time = true; after an insertion i is at least 1, also
\* when the insertion landed at position 0.
C21_FirstTimeOnlyFirst ==
    /\ \A n \in DOMAIN dec.first_time : dec.first_time[n] <=> n = 1
    /\ dec.pc \in {"outer", "digit", "insert"} /\ dec.buf # <<>> =>
          /\ dec.i >= 1
          /\ dec.pc \in {"digit", "insert"} => dec.previous_i >= 1

\* C21: adapt has been called for an integer that follows an insertion at
\* position 0 which was not the first insertion.
C21_Witness ==
    /\ dec.pc = "outer"
    /\ Len(dec.first_time) >= 3
    /\ Len(dec.first_time) = Len(dec.buf)
    /\ \E n \in 2..(Len(dec.buf) - 1) : dec.buf[n][1] = 0

(***************************************************************************)
(* Claim about the labels of the slow path, checked under SpecIdna.        *)
(***************************************************************************)
SlowPathLabelsDone ==
    idna.pc \in {"bidi", "processed", "verify", "done"} /\ ~idna.simple

\* C22: on the slow path the validated string has the labels of the mapped
\* and normalized domain, one for one and in order: a label without the
\* prefix as it is, a label that decodes as its decoded text, a label that
\* does not decode as the empty label; such a label sets punycode and
\* has_bidi_labels, and then a label anywhere in the domain that breaks the
\* bidi rules sets validity_criteria.
C22_LabelStructure ==
    SlowPathLabelsDone =>
        LET normalized == split(idna.normalized)
            validated == split(idna.validated)
            infos == [k \in DOMAIN normalized |-> LabelInfo(normalized[k], idna.config)]
            fails == \E k \in DOMAIN infos : infos[k].fails
        IN /\ Len(validated) = Len(normalized)
           /\ \A k \in DOMAIN normalized : validated[k] = infos[k].text
           /\ idna.errors.punycode <=> fails
           /\ fails => idna.has_bidi_labels
           /\ (/\ fails
               /\ idna.pc # "bidi"
               /\ \E k \in DOMAIN validated :
                     validated[k] # <<>> /\ ~Rfc5893(validated[k]))
                => idna.errors.validity_criteria

\* C22: processing has returned a domain whose first label did not decode
\* and left an empty label, and whose second label broke no rule but those of
\* bidi and made the domain invalid.
C22_Witness ==
    /\ idna.pc = "processed" /\ ~idna.simple
    /\ idna.errors.punycode /\ idna.errors.validity_criteria
    /\ LET normalized == split(idna.normalized)
           validated == split(idna.validated)
       IN /\ Len(normalized) = 2
          /\ Len(validated) = 2
          /\ PunycodeFails(normalized[1])
          /\ validated[1] = <<>>
          /\ validated[2] = <<48, 97>>
          /\ is_valid(validated[2], idna.config)

\* C22: a label that decoded stands between the dots where its ACE form
\* stood.
C22_WitnessDecoded ==
    /\ idna.pc = "processed" /\ ~idna.simple /\ ~failed(idna.errors)
    /\ LET normalized == split(idna.normalized)
           validated == split(idna.validated)
       IN /\ Len(normalized) = 2
          /\ Len(validated) = 2
          /\ starts_with(normalized[2], PUNYCODE_PREFIX)
          /\ validated[2] = <<233>>

====
